---- MODULE Spec2Model ----
(***************************************************************************)
(* Model of SynthSeg/training.py: the two-phase training orchestrator      *)
(* training() (weighted-L2 warm-up, then Dice fine-tuning) and the epoch   *)
(* loop train_model() with its per-epoch checkpoint callback.              *)
(*                                                                         *)
(* keras' fit_generator and ModelCheckpoint are modelled with the          *)
(* arguments train_model() passes and the library defaults it leaves       *)
(* untouched (workers=1, max_queue_size=10, period=1, save_best_only off). *)
(***************************************************************************)
EXTENDS Integers, Sequences, FiniteSets, TLC

\* ------------------------------------------------------------------ bounds
MaxEpochs == 2
MaxSteps == 2

\* keras fit_generator default, left untouched by train_model()
max_queue_size == 10

\* ------------------------------------------------------------------- state
VARIABLES
    \* arguments of training()
    wl2_epochs, dice_epochs, steps_per_epoch, load_model_file,
    initial_epoch_wl2, initial_epoch_dice, path_segmentation_labels,
    use_specific_stats_for_channel, n_channels, n_modalities,
    \* position of the launch script, "api" when training() is called directly
    launch,
    \* position and locals of training()
    pc, stage, generation_labels, segmentation_labels, brain_generator,
    \* file system
    dirs, files,
    \* train_model() / fit_generator
    metric_type, epoch, step, queue, pulled, consumed,
    \* observable history: weight loads, epoch starts, checkpoint writes
    log,
    \* name of the checkpoint being written when the process died
    crashed_writing

args == <<wl2_epochs, dice_epochs, steps_per_epoch, load_model_file,
          initial_epoch_wl2, initial_epoch_dice, path_segmentation_labels,
          use_specific_stats_for_channel, n_channels, n_modalities, launch>>
locals == <<generation_labels, segmentation_labels, brain_generator>>
fit == <<metric_type, epoch, step, queue, pulled, consumed>>
vars == <<args, pc, stage, locals, dirs, files, fit, log, crashed_writing>>

\* ------------------------------------------------------------ file names
RECURSIVE Digits(_)
Digits(n) == IF n < 10 THEN <<n>> ELSE Digits(n \div 10) \o <<n % 10>>

RECURSIVE ZeroPad(_, _)
ZeroPad(s, w) == IF Len(s) >= w THEN s ELSE ZeroPad(<<0>> \o s, w)

\* '%03d' % n  and  '{epoch:03d}'.format(epoch=n)
Fmt03d(n) == ZeroPad(Digits(n), 3)

\* os.path.join(model_dir, '<tag>_<digits>.h5')
CheckpointName(tag, n) == <<tag, Fmt03d(n)>>

NoFile == <<"none", <<>>>>
ExtFile == <<"ext", <<>>>>

\* ----------------------------------------------------------------- events
Event(ev, ph, file, by_name, e) ==
    [ev |-> ev, phase |-> ph, file |-> file, by_name |-> by_name, epoch |-> e]

LoadEvent(ph, file, by_name) == Event("load", ph, file, by_name, 0)
EpochEvent(ph, e) == Event("epoch", ph, NoFile, FALSE, e)
SaveEvent(ph, file, e) == Event("save", ph, file, FALSE, e)

\* --------------------------------------------------------- pure decisions
\* variant: the assertion written with >= instead of >
EpochsValid_NonNegative(w, d) == (w >= 0) \/ (d >= 0)

\* line 191: assert (wl2_epochs > 0) | (dice_epochs > 0)
EpochsValid(w, d) == (w > 0) \/ (d > 0)

\* labels found by scanning the label maps of labels_dir
LabelsInDir == {0, 2, 3, 4}

NoList == [given |-> FALSE, labels |-> {}]
GivenList(ls) == [given |-> TRUE, labels |-> ls]

\* utils.get_list_labels: the explicit list when one is supplied, otherwise
\* the labels found in labels_dir
get_list_labels(label_list, dir_labels) ==
    IF label_list.given THEN label_list.labels ELSE dir_labels

\* variant: the else branch is missing, the list is always read from the path
SegmentationLabels_AlwaysRead(path_seg, gen) == get_list_labels(path_seg, {})

\* lines 199-202
SegmentationLabels(path_seg, gen) ==
    IF path_seg.given THEN get_list_labels(path_seg, {}) ELSE gen

\* BrainGenerator's validation of its configuration: per-channel statistics
\* need as many modality blocks as channels, and the output labels must be
\* generation labels
StatsConsistent(use, m, c) == (use /\ m > 1) => (m = c)
GeneratorAccepts(gen, seg, use, m, c) ==
    StatsConsistent(use, m, c) /\ seg \subseteq gen

\* variant: an explicit load_model_file takes precedence over the warm-up
\* checkpoint
DiceLoadSource_FileFirst(w, lmf) ==
    IF lmf # NoFile THEN [file |-> lmf, by_name |-> FALSE]
    ELSE IF w > 0 THEN [file |-> CheckpointName("wl2", w), by_name |-> TRUE]
    ELSE [file |-> NoFile, by_name |-> FALSE]

\* variant: the elif branch is missing
DiceLoadSource_NoElif(w, lmf) ==
    IF w > 0 THEN [file |-> CheckpointName("wl2", w), by_name |-> TRUE]
    ELSE [file |-> NoFile, by_name |-> FALSE]

\* variant: the warm-up checkpoint name is built with the wrong epoch number
DiceLoadSource_NextEpoch(w, lmf) ==
    IF w > 0 THEN [file |-> CheckpointName("wl2", w + 1), by_name |-> TRUE]
    ELSE IF lmf # NoFile THEN [file |-> lmf, by_name |-> FALSE]
    ELSE [file |-> NoFile, by_name |-> FALSE]

\* lines 277-281: which weights the fine-tuning model loads
DiceLoadSource(w, lmf) ==
    IF w > 0 THEN [file |-> CheckpointName("wl2", w), by_name |-> TRUE]
    ELSE IF lmf # NoFile THEN [file |-> lmf, by_name |-> FALSE]
    ELSE [file |-> NoFile, by_name |-> FALSE]

\* lines 269-270: which weights the warm-up model loads
Wl2LoadSource(lmf) == [file |-> lmf, by_name |-> FALSE]

\* a file can be loaded when it exists (h5py raises otherwise)
Exists(f) == f \in DOMAIN files

\* ---------------------------------------------------------- launch script
\* default values, numbers in millionths
Required == [kind |-> "required", num |-> 0, str |-> ""]
None == [kind |-> "none", num |-> 0, str |-> ""]
Num(v) == [kind |-> "num", num |-> v, str |-> ""]
Str(t) == [kind |-> "str", num |-> 0, str |-> t]
Bool(b) == [kind |-> "bool", num |-> IF b THEN 1 ELSE 0, str |-> ""]

\* scripts/launch_scripts_from_terminal/training.py, lines 9-68: destination
\* and default of every argument of the parser
ParserArgs ==
    [ labels_dir |-> Required,
      model_dir |-> Required,
      path_generation_labels |-> None,
      path_segmentation_labels |-> None,
      save_generation_labels |-> None,
      batchsize |-> Num(1000000),
      n_channels |-> Num(1000000),
      target_res |-> None,
      output_shape |-> None,
      path_generation_classes |-> None,
      prior_distributions |-> Str("uniform"),
      prior_means |-> None,
      prior_stds |-> None,
      use_specific_stats_for_channel |-> Bool(FALSE),
      mix_prior_and_random |-> Bool(FALSE),
      flipping |-> Bool(TRUE),
      scaling_bounds |-> Num(150000),
      rotation_bounds |-> Num(15000000),
      shearing_bounds |-> Num(12000),
      translation_bounds |-> Bool(FALSE),
      nonlin_std |-> Num(3000000),
      nonlin_shape_factor |-> Num(40000),
      randomise_res |-> Bool(FALSE),
      build_distance_maps |-> Bool(FALSE),
      data_res |-> None,
      thickness |-> None,
      downsample |-> Bool(FALSE),
      blur_range |-> Num(1030000),
      bias_field_std |-> Num(500000),
      bias_shape_factor |-> Num(25000),
      n_levels |-> Num(5000000),
      nb_conv_per_level |-> Num(2000000),
      conv_size |-> Num(3000000),
      unet_feat_count |-> Num(24000000),
      feat_multiplier |-> Num(2000000),
      dropout |-> Num(0),
      activation |-> Str("elu"),
      lr |-> Num(100),
      lr_decay |-> Num(0),
      wl2_epochs |-> Num(5000000),
      dice_epochs |-> Num(100000000),
      steps_per_epoch |-> Num(1000000000),
      checkpoint |-> None ]

\* SynthSeg/training.py, lines 17-61: parameters of training() and their
\* defaults
TrainingSignature ==
    [ labels_dir |-> Required,
      model_dir |-> Required,
      path_generation_labels |-> None,
      path_segmentation_labels |-> None,
      save_generation_labels |-> None,
      batchsize |-> Num(1000000),
      n_channels |-> Num(1000000),
      target_res |-> None,
      output_shape |-> None,
      path_generation_classes |-> None,
      prior_distributions |-> Str("uniform"),
      prior_means |-> None,
      prior_stds |-> None,
      use_specific_stats_for_channel |-> Bool(FALSE),
      mix_prior_and_random |-> Bool(FALSE),
      flipping |-> Bool(TRUE),
      scaling_bounds |-> Num(150000),
      rotation_bounds |-> Num(15000000),
      shearing_bounds |-> Num(12000),
      translation_bounds |-> Bool(FALSE),
      nonlin_std |-> Num(4000000),
      nonlin_shape_factor |-> Num(40000),
      randomise_res |-> Bool(FALSE),
      buil_distance_maps |-> Bool(FALSE),
      data_res |-> None,
      thickness |-> None,
      downsample |-> Bool(FALSE),
      blur_range |-> Num(1150000),
      bias_field_std |-> Num(500000),
      bias_shape_factor |-> Num(25000),
      n_levels |-> Num(5000000),
      nb_conv_per_level |-> Num(2000000),
      conv_size |-> Num(3000000),
      unet_feat_count |-> Num(24000000),
      feat_multiplier |-> Num(2000000),
      dropout |-> Num(0),
      activation |-> Str("elu"),
      lr |-> Num(100),
      lr_decay |-> Num(0),
      wl2_epochs |-> Num(5000000),
      dice_epochs |-> Num(100000000),
      steps_per_epoch |-> Num(1000000000),
      load_model_file |-> None,
      initial_epoch_wl2 |-> Num(0),
      initial_epoch_dice |-> Num(0) ]

ParserDests == DOMAIN ParserArgs
TrainingParams == DOMAIN TrainingSignature

\* a call f(**kwargs) binds when every keyword is a parameter of f and every
\* parameter without default is given; it raises TypeError otherwise
CallAccepts(kwargs, sig) ==
    /\ kwargs \subseteq DOMAIN sig
    /\ { q \in DOMAIN sig : sig[q] = Required } \subseteq kwargs

\* ------------------------------------------------------------------- Init
StatsConfigs ==
    { <<FALSE, 1, 1>>, <<TRUE, 2, 2>>, <<TRUE, 2, 1>> }

SegmentationLists == { NoList, GivenList({0, 2, 3}), GivenList({0, 2, 5}) }

LoadModelFiles ==
    { NoFile, ExtFile } \cup { CheckpointName("dice", k) : k \in 1..MaxEpochs }

\* files left in model_dir (and the external checkpoint) by earlier runs
PriorNames ==
    { ExtFile } \cup
    { CheckpointName(t, k) : t \in {"wl2", "dice"}, k \in 1..MaxEpochs }
PriorFiles == [f \in PriorNames |-> "old"]
NoFiles == [f \in {} |-> "old"]

Init ==
    /\ wl2_epochs \in -1..MaxEpochs
    /\ dice_epochs \in -1..MaxEpochs
    /\ steps_per_epoch \in 1..MaxSteps
    /\ load_model_file \in LoadModelFiles
    /\ initial_epoch_wl2 \in 0..MaxEpochs
    /\ initial_epoch_dice \in 0..MaxEpochs
    /\ path_segmentation_labels \in SegmentationLists
    /\ \E cfg \in StatsConfigs :
           /\ use_specific_stats_for_channel = cfg[1]
           /\ n_modalities = cfg[2]
           /\ n_channels = cfg[3]
    /\ launch \in {"api", "parse_args"}
    \* the launch script has no flag for these three parameters
    /\ (launch = "parse_args" =>
           /\ load_model_file = NoFile
           /\ initial_epoch_wl2 = 0
           /\ initial_epoch_dice = 0)
    /\ pc = IF launch = "api" THEN "check_epochs" ELSE "not_called"
    /\ stage = "WARMUP_PENDING"
    /\ generation_labels = {}
    /\ segmentation_labels = {}
    /\ brain_generator = FALSE
    /\ dirs = {}
    /\ files \in {NoFiles, PriorFiles}
    /\ metric_type = "none"
    /\ epoch = 0
    /\ step = 0
    /\ queue = <<>>
    /\ pulled = 0
    /\ consumed = <<>>
    /\ log = <<>>
    /\ crashed_writing = NoFile

\* ---------------------------------------------------------- launch script
\* launch script, lines 70-71: args = parser.parse_args();
\* training(**vars(args))
Launch ==
    /\ launch = "parse_args"
    /\ IF CallAccepts(ParserDests, TrainingSignature)
       THEN launch' = "called" /\ pc' = "check_epochs"
       ELSE launch' = "type_error" /\ pc' = pc
    /\ UNCHANGED <<wl2_epochs, dice_epochs, steps_per_epoch, load_model_file,
                   initial_epoch_wl2, initial_epoch_dice,
                   path_segmentation_labels, use_specific_stats_for_channel,
                   n_channels, n_modalities, stage, locals, dirs, files, fit,
                   log, crashed_writing>>

\* ------------------------------------------------------------- training()
\* lines 190-192
CheckEpochs ==
    /\ pc = "check_epochs"
    /\ pc' = IF EpochsValid(wl2_epochs, dice_epochs)
             THEN "get_labels" ELSE "config_error"
    /\ UNCHANGED <<args, stage, locals, dirs, files, fit, log, crashed_writing>>

\* lines 194-203, with path_generation_labels left at None: the generation
\* labels are those found in labels_dir
GetLabels ==
    /\ pc = "get_labels"
    /\ generation_labels' = get_list_labels(NoList, LabelsInDir)
    /\ segmentation_labels' =
           SegmentationLabels(path_segmentation_labels, generation_labels')
    /\ pc' = "mkdir_model"
    /\ UNCHANGED <<args, stage, brain_generator, dirs, files, fit, log,
                   crashed_writing>>

\* lines 205-206
MkModelDir ==
    /\ pc = "mkdir_model"
    /\ dirs' = dirs \cup {"model_dir"}
    /\ pc' = "mkdir_log"
    /\ UNCHANGED <<args, stage, locals, files, fit, log, crashed_writing>>

\* lines 208-210
MkLogDir ==
    /\ pc = "mkdir_log"
    /\ dirs' = dirs \cup {"log_dir"}
    /\ pc' = "build_generator"
    /\ UNCHANGED <<args, stage, locals, files, fit, log, crashed_writing>>

\* lines 212-263: BrainGenerator, the unet and the training generator
BuildGenerator ==
    /\ pc = "build_generator"
    /\ IF GeneratorAccepts(generation_labels, segmentation_labels,
                           use_specific_stats_for_channel, n_modalities,
                           n_channels)
       THEN brain_generator' = TRUE /\ pc' = "wl2_pending"
       ELSE brain_generator' = FALSE /\ pc' = "config_error"
    /\ UNCHANGED <<args, stage, generation_labels, segmentation_labels, dirs,
                   files, fit, log, crashed_writing>>

\* train_model(), lines 297-308, up to the call of fit_generator
StartFit(tag, initial_epoch) ==
    /\ metric_type' = tag
    /\ epoch' = initial_epoch
    /\ step' = 0
    /\ queue' = <<>>
    /\ pulled' = 0
    /\ consumed' = <<>>
    /\ pc' = "fit_loop"

\* variant: the warm-up phase is entered with wl2_epochs = 0
Wl2Check_NonNegative ==
    /\ pc = "wl2_pending"
    /\ pc' = IF wl2_epochs >= 0 THEN "wl2_load" ELSE "dice_pending"
    /\ UNCHANGED <<args, stage, locals, dirs, files, fit, log, crashed_writing>>

\* line 266
Wl2Check ==
    /\ pc = "wl2_pending"
    /\ pc' = IF wl2_epochs > 0 THEN "wl2_load" ELSE "dice_pending"
    /\ UNCHANGED <<args, stage, locals, dirs, files, fit, log, crashed_writing>>

\* lines 267-272
Wl2Phase ==
    /\ pc = "wl2_load"
    /\ LET src == Wl2LoadSource(load_model_file) IN
       IF src.file # NoFile /\ ~Exists(src.file)
       THEN /\ pc' = "resource_error"
            /\ UNCHANGED <<stage, fit, log>>
       ELSE /\ log' = IF src.file = NoFile THEN log
                      ELSE Append(log, LoadEvent("wl2", src.file, src.by_name))
            /\ stage' = "WARMUP_RUNNING"
            /\ StartFit("wl2", initial_epoch_wl2)
    /\ UNCHANGED <<args, locals, dirs, files, crashed_writing>>

\* variant: the fine-tuning phase is entered with dice_epochs = 0
DiceCheck_NonNegative ==
    /\ pc = "dice_pending"
    /\ IF dice_epochs >= 0
       THEN pc' = "dice_load" /\ stage' = "DICE_PENDING"
       ELSE pc' = "returned" /\ stage' = stage
    /\ UNCHANGED <<args, locals, dirs, files, fit, log, crashed_writing>>

\* line 275
DiceCheck ==
    /\ pc = "dice_pending"
    /\ IF dice_epochs > 0
       THEN pc' = "dice_load" /\ stage' = "DICE_PENDING"
       ELSE pc' = "returned" /\ stage' = stage
    /\ UNCHANGED <<args, locals, dirs, files, fit, log, crashed_writing>>

\* lines 276-283
DicePhase ==
    /\ pc = "dice_load"
    /\ LET src == DiceLoadSource(wl2_epochs, load_model_file) IN
       IF src.file # NoFile /\ ~Exists(src.file)
       THEN /\ pc' = "resource_error"
            /\ UNCHANGED <<stage, fit, log>>
       ELSE /\ log' = IF src.file = NoFile THEN log
                      ELSE Append(log, LoadEvent("dice", src.file, src.by_name))
            /\ stage' = "DICE_RUNNING"
            /\ StartFit("dice", initial_epoch_dice)
    /\ UNCHANGED <<args, locals, dirs, files, crashed_writing>>

\* ---------------------------------------------------------- train_model()
\* lines 310-315: epochs=n_epochs of the running phase
NEpochs == IF metric_type = "wl2" THEN wl2_epochs ELSE dice_epochs

\* variant: the loop runs one epoch too many
FitContinues_Inclusive(e, n) == e <= n

\* fit_generator's loop condition: while epoch < epochs
FitContinues(e, n) == e < n

\* variant: the file name is formatted with the 0-based epoch index
CheckpointEpoch_ZeroBased(e) == e

\* ModelCheckpoint.on_epoch_end formats the file name with epoch + 1
CheckpointEpoch(e) == e + 1

\* line 298 and the callback of line 299: file written at the end of epoch e
SaveFileName(tag, e) == CheckpointName(tag, CheckpointEpoch(e))

\* the enqueuer's queue holds max_queue_size batches and its single worker
\* blocks on put() with one more batch in hand
QueueHasRoom(q) == Len(q) <= max_queue_size

\* variant: the most recently queued batch is taken
NextBatch_Newest(q) == q[Len(q)]

\* the training loop takes the batch at the front of the queue
NextBatch(q) == Head(q)

Fitting == pc \in {"fit_loop", "fit_epoch", "fit_save"}

\* top of the epoch loop of fit_generator (line 311)
FitLoop ==
    /\ pc = "fit_loop"
    /\ IF FitContinues(epoch, NEpochs)
       THEN /\ log' = Append(log, EpochEvent(metric_type, epoch))
            /\ step' = 0
            /\ pc' = "fit_epoch"
            /\ UNCHANGED <<stage, metric_type, epoch, queue, pulled, consumed>>
       ELSE \* fit_generator returns: the enqueuer is stopped, train_model
            \* returns into training()
            /\ pc' = IF metric_type = "wl2" THEN "dice_pending" ELSE "returned"
            /\ stage' = IF metric_type = "wl2" THEN "WARMUP_DONE" ELSE "DICE_DONE"
            /\ metric_type' = "none"
            /\ epoch' = 0
            /\ step' = 0
            /\ queue' = <<>>
            /\ pulled' = 0
            /\ consumed' = <<>>
            /\ log' = log
    /\ UNCHANGED <<args, locals, dirs, files, crashed_writing>>

\* the enqueuer's worker thread calls next(generator) (line 311, workers=1)
Pull ==
    /\ Fitting
    /\ QueueHasRoom(queue)
    /\ pulled' = pulled + 1
    /\ queue' = Append(queue, pulled + 1)
    /\ UNCHANGED <<args, pc, stage, locals, dirs, files, metric_type, epoch,
                   step, consumed, log, crashed_writing>>

\* one optimizer step on the next queued batch (line 313: n_steps per epoch)
TrainOnBatch ==
    /\ pc = "fit_epoch"
    /\ step < steps_per_epoch
    /\ queue # <<>>
    /\ consumed' = Append(consumed, NextBatch(queue))
    /\ queue' = Tail(queue)
    /\ step' = step + 1
    /\ UNCHANGED <<args, pc, stage, locals, dirs, files, metric_type, epoch,
                   pulled, log, crashed_writing>>

\* ModelCheckpoint.on_epoch_end opens the file under its final name
BeginSave ==
    /\ pc = "fit_epoch"
    /\ step = steps_per_epoch
    /\ files' = (SaveFileName(metric_type, epoch) :> "partial") @@ files
    /\ pc' = "fit_save"
    /\ UNCHANGED <<args, stage, locals, dirs, fit, log, crashed_writing>>

\* save_weights returns; the epoch is closed and the counter advances
EndSave ==
    /\ pc = "fit_save"
    /\ files' = (SaveFileName(metric_type, epoch) :> "new") @@ files
    /\ log' = Append(log, SaveEvent(metric_type,
                                    SaveFileName(metric_type, epoch), epoch))
    /\ epoch' = epoch + 1
    /\ step' = 0
    /\ pc' = "fit_loop"
    /\ UNCHANGED <<args, stage, locals, dirs, metric_type, queue, pulled,
                   consumed, crashed_writing>>

\* the process dies: memory is lost, the file system stays as it is
Terminal ==
    \/ pc \in {"returned", "config_error", "resource_error", "crashed"}
    \/ launch = "type_error"

Crash ==
    /\ ~Terminal
    /\ crashed_writing' = IF pc = "fit_save"
                          THEN SaveFileName(metric_type, epoch) ELSE NoFile
    /\ pc' = "crashed"
    /\ generation_labels' = {}
    /\ segmentation_labels' = {}
    /\ brain_generator' = FALSE
    /\ metric_type' = "none"
    /\ epoch' = 0
    /\ step' = 0
    /\ queue' = <<>>
    /\ pulled' = 0
    /\ consumed' = <<>>
    /\ UNCHANGED <<args, stage, dirs, files, log>>

Next ==
    \/ Launch
    \/ CheckEpochs
    \/ GetLabels
    \/ MkModelDir
    \/ MkLogDir
    \/ BuildGenerator
    \/ Wl2Check
    \/ Wl2Phase
    \/ DiceCheck
    \/ DicePhase
    \/ FitLoop
    \/ Pull
    \/ TrainOnBatch
    \/ BeginSave
    \/ EndSave
    \/ Crash

Spec == Init /\ [][Next]_vars

\* ================================================================ claims
\* number spelled by a sequence of decimal digits
RECURSIVE DigitsValue(_)
DigitsValue(ds) ==
    IF ds = <<>> THEN 0
    ELSE 10 * DigitsValue(SubSeq(ds, 1, Len(ds) - 1)) + ds[Len(ds)]

IsLoad(e) == e.ev = "load"
IsEpoch(e) == e.ev = "epoch"
IsSave(e) == e.ev = "save"

LoadsOf(ph) == SelectSeq(log, LAMBDA e : IsLoad(e) /\ e.phase = ph)
EpochsOf(ph) == SelectSeq(log, LAMBDA e : IsEpoch(e) /\ e.phase = ph)
SavesOf(ph) == SelectSeq(log, LAMBDA e : IsSave(e) /\ e.phase = ph)

\* numbers of the checkpoints of phase ph written so far, in writing order
SavedNumbers(ph) ==
    [i \in 1..Len(SavesOf(ph)) |-> DigitsValue(SavesOf(ph)[i].file[2])]

\* the sequence k+1, ..., n
FromTo(k, n) == [i \in 1..(n - k) |-> k + i]

IsPrefix(s, t) == Len(s) <= Len(t) /\ \A i \in 1..Len(s) : s[i] = t[i]

\* the fit of phase ph has returned
PhaseFinished(ph) ==
    IF ph = "wl2"
    THEN wl2_epochs > 0 /\ stage \in {"WARMUP_DONE", "DICE_PENDING",
                                      "DICE_RUNNING", "DICE_DONE"}
    ELSE stage = "DICE_DONE"

EpochsArg(ph) == IF ph = "wl2" THEN wl2_epochs ELSE dice_epochs
InitialEpochArg(ph) == IF ph = "wl2" THEN initial_epoch_wl2 ELSE initial_epoch_dice

\* files created or overwritten by this run
Written == { f \in DOMAIN files : files[f] # "old" }

\* C1: when neither wl2_epochs nor dice_epochs is positive, training() ends
\* in a configuration error as soon as the epochs are checked, and no phase
\* is ever entered: no load, no epoch, no checkpoint, no stage change.
C1_NoPositiveEpochsFails ==
    (wl2_epochs <= 0 /\ dice_epochs <= 0) =>
        /\ pc \in {"not_called", "check_epochs", "config_error", "crashed"}
        /\ (pc = "crashed" => dirs = {})
        /\ log = <<>>
        /\ stage = "WARMUP_PENDING"
        /\ metric_type = "none"
        /\ Written = {}

C1_Witness ==
    wl2_epochs = 0 /\ dice_epochs = 0 /\ pc = "config_error"

\* C2: a phase with epoch count n started at initial epoch k, 0 <= k <= n,
\* writes the checkpoints k+1, ..., n in increasing order and nothing else
\* of that phase: what it has written is always a prefix of k+1..n, and once
\* the phase has finished it has run exactly n - k epochs and written all of
\* k+1..n.
C2_ResumeCorrect ==
    \A ph \in {"wl2", "dice"} :
        LET n == EpochsArg(ph)
            k == InitialEpochArg(ph)
        IN  (0 <= k /\ k <= n) =>
              /\ IsPrefix(SavedNumbers(ph), FromTo(k, n))
              /\ \A i \in 1..Len(SavesOf(ph)) : SavesOf(ph)[i].file[1] = ph
              /\ { DigitsValue(f[2]) : f \in { g \in Written : g[1] = ph } }
                     \subseteq (k + 1)..n
              /\ PhaseFinished(ph) =>
                    /\ Len(EpochsOf(ph)) = n - k
                    /\ SavedNumbers(ph) = FromTo(k, n)

C2_Witness ==
    /\ dice_epochs = 2 /\ initial_epoch_dice = 1
    /\ PhaseFinished("dice")
    /\ SavedNumbers("dice") = <<2>>
\* position in the log of the first event satisfying P, 0 when there is none
FirstIndex(P(_)) ==
    IF \E i \in 1..Len(log) : P(log[i])
    THEN CHOOSE i \in 1..Len(log) : P(log[i]) /\ \A j \in 1..(i - 1) : ~P(log[j])
    ELSE 0

IsDiceLoad(e) == IsLoad(e) /\ e.phase = "dice"
IsDiceEpoch(e) == IsEpoch(e) /\ e.phase = "dice"

DiceStarted == stage \in {"DICE_RUNNING", "DICE_DONE"}

C4_DiceLoadsModelFile ==
    (wl2_epochs = 0 /\ dice_epochs > 0 /\ load_model_file # NoFile
        /\ DiceStarted) =>
          /\ LoadsOf("dice") = << LoadEvent("dice", load_model_file, FALSE) >>
          /\ LoadsOf("wl2") = <<>>
          /\ \A i \in 1..Len(log) : IsLoad(log[i]) => ~log[i].by_name
          /\ (EpochsOf("dice") # <<>> =>
                 FirstIndex(IsDiceLoad) < FirstIndex(IsDiceEpoch))

C4_Witness ==
    /\ wl2_epochs = 0 /\ dice_epochs = 1 /\ load_model_file = ExtFile
    /\ EpochsOf("dice") # <<>>
    /\ LoadsOf("dice") = << LoadEvent("dice", ExtFile, FALSE) >>

\* C5: a run with dice_epochs = 0, wl2_epochs = n > 0 and initial_epoch_wl2 = 0
\* that returns does so in WARMUP_DONE, having written exactly wl2_001..wl2_n
\* (three digits each) and no dice checkpoint; n = 1 gives just wl2_001, which
\* in a fresh model_dir is then the only file.
C5_WarmupOnlyRun ==
    (dice_epochs = 0 /\ wl2_epochs > 0 /\ initial_epoch_wl2 = 0
        /\ pc = "returned") =>
          /\ stage = "WARMUP_DONE"
          /\ \A f \in Written :
                f[1] = "wl2" /\ Len(f[2]) = 3 /\ files[f] = "new"
                /\ DigitsValue(f[2]) \in 1..wl2_epochs
          /\ \A i \in 1..wl2_epochs : \E f \in Written : DigitsValue(f[2]) = i
          /\ Cardinality(Written) = wl2_epochs
          /\ EpochsOf("dice") = <<>> /\ SavesOf("dice") = <<>>
          /\ (wl2_epochs = 1 => Written = { <<"wl2", <<0, 0, 1>>>> })
          /\ (wl2_epochs = 1 /\ ExtFile \notin DOMAIN files =>
                 DOMAIN files = { <<"wl2", <<0, 0, 1>>>> })

C5_Witness ==
    /\ dice_epochs = 0 /\ wl2_epochs = 1 /\ initial_epoch_wl2 = 0
    /\ steps_per_epoch = 2
    /\ pc = "returned"
    /\ DOMAIN files = { <<"wl2", <<0, 0, 1>>>> }

\* epoch and save events of the log, in order
EpochAndSaveEvents == SelectSeq(log, LAMBDA e : IsEpoch(e) \/ IsSave(e))

\* C6: in both phases every epoch that runs ends with one checkpoint write:
\* epoch and save events alternate, the save that closes the epoch with
\* 0-based index i (the (i+1)-th epoch) is named '<phase>_' followed by i+1
\* in three digits, every begun epoch has its save as soon as the loop is back
\* at its top, and the files change at no other moment than the end of an
\* epoch, after its steps_per_epoch steps.
C6_SaveState ==
    LET es == EpochAndSaveEvents IN
    /\ \A i \in 1..Len(es) :
          IF i % 2 = 1
          THEN IsEpoch(es[i])
          ELSE /\ IsSave(es[i])
               /\ es[i].phase = es[i - 1].phase
               /\ es[i].file[1] = es[i].phase
               /\ es[i].file[1] \in {"wl2", "dice"}
               /\ Len(es[i].file[2]) = 3
               /\ DigitsValue(es[i].file[2]) = es[i - 1].epoch + 1
               /\ es[i].file \in DOMAIN files
    /\ (pc \in {"fit_loop", "dice_pending", "dice_load", "returned"}
           => Len(es) % 2 = 0)
    /\ (pc = "fit_epoch" => Len(es) % 2 = 1)

C6_SaveStep ==
    (files' # files) =>
        \/ pc = "fit_epoch" /\ step = steps_per_epoch /\ pc' = "fit_save"
        \/ pc = "fit_save" /\ pc' = "fit_loop"

C6_CheckpointEveryEpoch == [](C6_SaveState) /\ [][C6_SaveStep]_vars

C6_Witness ==
    /\ stage = "DICE_DONE"
    /\ Len(SavesOf("wl2")) = 2
    /\ Len(SavesOf("dice")) = 2
\* C7: every parameter validation failure aborts training() before model_dir
\* or its logs subdirectory is created and before the generator is built.
C7_ValidationBeforeSideEffects ==
    (pc = "config_error") => (dirs = {} /\ ~brain_generator)

\* C8 (as stated): batch i+1 is never requested from the generator before
\* batch i has been consumed by an optimizer step.
C8_StrictAlternation ==
    Fitting => pulled <= Len(consumed) + 1

\* C8 (amended): optimizer steps consume the batches one at a time in the
\* order the single worker pulled them, each batch pulled before it is
\* consumed and none skipped or repeated; the worker may run ahead of the
\* optimizer, by at most max_queue_size + 1 batches.
C8_PrefetchInOrder ==
    /\ consumed = [i \in 1..Len(consumed) |-> i]
    /\ queue = [i \in 1..Len(queue) |-> Len(consumed) + i]
    /\ pulled = Len(consumed) + Len(queue)
    /\ Len(queue) <= max_queue_size + 1
    /\ (pc = "fit_epoch" => step <= steps_per_epoch /\ step <= Len(consumed))

C8_Witness ==
    /\ pc = "fit_epoch"
    /\ Len(consumed) >= 2
    /\ Len(queue) = max_queue_size + 1

\* C9: if the process dies while the checkpoint of an epoch is being written,
\* no partially written file is visible under a checkpoint name.
C9_CrashSafeCheckpoint ==
    (pc = "crashed") => \A f \in DOMAIN files : files[f] # "partial"

C11_CliExposesTraining ==
    (launch \notin {"api", "parse_args"}) =>
        /\ launch = "called"
        /\ ParserDests \subseteq TrainingParams
        /\ TrainingParams \subseteq ParserDests
        /\ \A q \in ParserDests \cap TrainingParams :
              ParserArgs[q] = TrainingSignature[q]
\* position of a stage in the order of the orchestrator's states
StageRank(st) ==
    CASE st = "WARMUP_PENDING" -> 1
      [] st = "WARMUP_RUNNING" -> 2
      [] st = "WARMUP_DONE" -> 3
      [] st = "DICE_PENDING" -> 4
      [] st = "DICE_RUNNING" -> 5
      [] st = "DICE_DONE" -> 6

\* C12: the orchestrator only moves forward through its six states.  No
\* warm-up event follows a fine-tuning event; when the fine-tuning model loads
\* or runs, every warm-up epoch has its checkpoint written; the fine-tuning
\* load precedes every fine-tuning epoch; with wl2_epochs = 0 (dice_epochs = 0)
\* the warm-up (fine-tuning) phase leaves no load, epoch or checkpoint and its
\* states are never entered; a run that returns has gone through a phase.
C12_ForwardState ==
    /\ \A i \in 1..Len(log) : \A j \in (i + 1)..Len(log) :
          /\ log[i].phase = "dice" => log[j].phase = "dice"
          /\ ~(IsDiceEpoch(log[i]) /\ IsDiceLoad(log[j]))
    /\ ((\E i \in 1..Len(log) : log[i].phase = "dice") \/ StageRank(stage) >= 3)
          => Len(EpochsOf("wl2")) = Len(SavesOf("wl2"))
    /\ (EpochsOf("dice") # <<>> => StageRank(stage) >= 5)
    /\ (EpochsOf("wl2") # <<>> => StageRank(stage) >= 2)
    /\ (wl2_epochs = 0 =>
          /\ \A i \in 1..Len(log) : log[i].phase # "wl2"
          /\ stage \notin {"WARMUP_RUNNING", "WARMUP_DONE"}
          /\ \A f \in Written : f[1] # "wl2")
    /\ (dice_epochs = 0 =>
          /\ \A i \in 1..Len(log) : log[i].phase # "dice"
          /\ stage \notin {"DICE_PENDING", "DICE_RUNNING", "DICE_DONE"}
          /\ \A f \in Written : f[1] # "dice")
    /\ (pc = "returned" => stage \in {"WARMUP_DONE", "DICE_DONE"})

C12_ForwardStep == StageRank(stage') >= StageRank(stage)

C12_OnlyForward == [](C12_ForwardState) /\ [][C12_ForwardStep]_vars

C12_Witness ==
    /\ stage = "DICE_RUNNING"
    /\ wl2_epochs = 2 /\ initial_epoch_wl2 = 0
    /\ Len(SavesOf("wl2")) = 2
    /\ LoadsOf("dice") # <<>>
    /\ Len(EpochsOf("dice")) = 2

\* load_model_file is the checkpoint 'dice_k' with k = initial_epoch_dice > 0
ResumesFromDiceCheckpoint ==
    /\ initial_epoch_dice > 0
    /\ load_model_file[1] = "dice"
    /\ DigitsValue(load_model_file[2]) = initial_epoch_dice

\* the fine-tuning phase has begun its first epoch as epoch
\* initial_epoch_dice + 1, with load_model_file the last file loaded into its
\* model
DiceResumedFromModelFile ==
    /\ EpochsOf("dice")[1].epoch = initial_epoch_dice
    /\ LoadsOf("dice") # <<>>
    /\ LoadsOf("dice")[Len(LoadsOf("dice"))].file = load_model_file
    /\ FirstIndex(IsDiceLoad) < FirstIndex(IsDiceEpoch)

\* C13 (as stated): in a rerun with initial_epoch_dice = k > 0 and
\* load_model_file = 'dice_k', for every wl2_epochs, the fine-tuning phase
\* starts epoch k+1 from the weights of load_model_file.
C13_ResumeAnyWl2 ==
    (ResumesFromDiceCheckpoint /\ EpochsOf("dice") # <<>>)
        => DiceResumedFromModelFile

\* C13 (amended): the same, for the runs that skip the warm-up phase
\* (wl2_epochs <= 0).
C13_ResumeWithoutWarmup ==
    (ResumesFromDiceCheckpoint /\ wl2_epochs <= 0 /\ EpochsOf("dice") # <<>>)
        => DiceResumedFromModelFile

C13_Witness ==
    /\ wl2_epochs = 0 /\ dice_epochs = 2 /\ initial_epoch_dice = 1
    /\ load_model_file = <<"dice", <<0, 0, 1>>>>
    /\ EpochsOf("dice") = << EpochEvent("dice", 1) >>
    /\ LoadsOf("dice") = << LoadEvent("dice", <<"dice", <<0, 0, 1>>>>, FALSE) >>

\* every warm-up checkpoint the fine-tuning model has read was written by the
\* warm-up phase of this run, before the read
DiceReadsOwnWl2 ==
    \A j \in 1..Len(log) :
        (IsDiceLoad(log[j]) /\ log[j].file[1] = "wl2") =>
            /\ log[j].file \in DOMAIN files
            /\ files[log[j].file] = "new"
            /\ \E i \in 1..(j - 1) :
                  IsSave(log[i]) /\ log[i].phase = "wl2"
                  /\ log[i].file = log[j].file

\* C14 (as stated): with wl2_epochs > 0 and dice_epochs > 0, for every
\* initial_epoch_wl2 >= 0, the warm-up checkpoint the fine-tuning phase reads
\* was written by the warm-up phase of the same run before it is read.
C14_ReadsOwnCheckpoint ==
    (wl2_epochs > 0 /\ dice_epochs > 0 /\ initial_epoch_wl2 >= 0)
        => DiceReadsOwnWl2

\* C14 (amended): the same, for initial_epoch_wl2 < wl2_epochs, that is when
\* the warm-up phase runs at least its last epoch.
C14_ReadsOwnCheckpointWhenWarmupRuns ==
    (wl2_epochs > 0 /\ dice_epochs > 0 /\ initial_epoch_wl2 >= 0
        /\ initial_epoch_wl2 < wl2_epochs)
        => DiceReadsOwnWl2

C14_Witness ==
    /\ wl2_epochs = 2 /\ initial_epoch_wl2 = 1 /\ dice_epochs > 0
    /\ ExtFile \in DOMAIN files
    /\ LoadsOf("dice") = << LoadEvent("dice", <<"wl2", <<0, 0, 2>>>>, TRUE) >>
    /\ files[<<"wl2", <<0, 0, 2>>>>] = "new"
    /\ files[<<"wl2", <<0, 0, 1>>>>] = "old"
====
